---------------------------- MODULE Spec2Model ----------------------------
(***************************************************************************)
(* A model of dod, a command-line client for DigitalOcean droplets.        *)
(*                                                                         *)
(* The repository holds three generations of the program:                  *)
(*   "part_000"   src/unnamed/part_000      authorize, all, <droplet_name> *)
(*   "dod_early"  src/dod.js lines 1-213    authorize, all,                *)
(*                                          <droplet_name|droplet_id>      *)
(*   "dod_latest" src/dod.js lines 215-557  authorize, list,               *)
(*                                          <droplet_name|droplet_id>      *)
(* One process runs one command.  A command issues HTTP requests whose     *)
(* callbacks run later, one at a time, on node's event loop: an action of  *)
(* the model is one command body or one callback, run to completion.       *)
(*                                                                         *)
(* Strings the code inspects character by character (the command-line      *)
(* argument, droplet names) are sequences of one-character strings.        *)
(* A JavaScript number-or-undefined (droplet.id, Number(arg)) is a         *)
(* sequence: << >> for undefined / NaN, <<n>> for the number n.            *)
(***************************************************************************)
EXTENDS Integers, Sequences, FiniteSets, TLC

VARIABLES
    variant,    \* which generation of the program runs
    cmd,        \* the command commander dispatched
    arg,        \* the <droplet_name|droplet_id> argument
    flags,      \* the detail flags set on cli (cli['kernels'], ...)
    pc,         \* position of the invocation
    spinning,   \* the ora spinner is running
    started,    \* spinner.start() was called
    pending,    \* HTTP requests sent and not yet answered
    sent,       \* every HTTP request sent, in order
    out,        \* every console.log of the invocation, in order
    droplets,   \* data.droplets of the droplets response
    droplet,    \* the handler's running match: << >> is {}, <<d>> is d
    option,     \* the handler's option ("undefined" until assigned)
    received,   \* every response handed to a callback, in order
    fileWrite   \* authorize's fs.writeFile: "none", "pending", "done"

vars == <<variant, cmd, arg, flags, pc, spinning, started, pending, sent,
          out, droplets, droplet, option, received, fileWrite>>

---------------------------------------------------------------------------
(* Bounds and input universes.                                             *)

\* longest droplet collection a droplets response carries
MaxDroplets == 2
\* longest command-line argument of the resolver specification
MaxKeyLen == 2
\* longest droplet collection of the resolver specification
MaxScan == 3
\* longest sub-resource collection a response carries
MaxItems == 2
\* longest collection of the presenter specification
MaxRows == 2

Variants == {"part_000", "dod_early", "dod_latest"}
Flags == {"kernels", "snapshots", "backups", "actions", "neighbors"}

KeyChars == {"0", "1", "a"}
DropletIds == {1, 11}
DropletNames == {<<"a">>, <<"1", "1">>}
DropletStatuses == {"active", "off"}
ItemStatuses == {"in-progress", "errored", "completed"}
ViewStatuses == {"active", "off", "new", "in-progress", "errored", "completed"}

SeqsUpTo(S, n) == UNION {[1..k -> S] : k \in 0..n}

Keys == SeqsUpTo(KeyChars, MaxKeyLen)
\* the arguments the command flow is run with
FlowKeys == {<<>>, <<"a">>, <<"1">>, <<"1", "1">>, <<"0", "1">>}

Droplet == [id : DropletIds, name : DropletNames, status : DropletStatuses]
\* the lookup handlers read only id and name of a droplet
LookupDroplet == [id : DropletIds, name : DropletNames, status : {"active"}]
Item == [id : {5}, status : ItemStatuses]

---------------------------------------------------------------------------
(* Number(arg): the ECMAScript StringToNumber conversion, for strings over *)
(* KeyChars.  The empty string is 0, a string of decimal digits is its     *)
(* value (leading zeros allowed), anything else is NaN.                    *)

IsDigit(c) == c \in {"0", "1"}

DigitVal(c) == IF c = "1" THEN 1 ELSE 0

RECURSIVE Decimal(_)
Decimal(s) ==
    IF s = <<>> THEN 0
    ELSE 10 * Decimal(SubSeq(s, 1, Len(s) - 1)) + DigitVal(s[Len(s)])

Number(s) ==
    IF s = <<>> THEN <<0>>
    ELSE IF \A i \in 1..Len(s) : IsDigit(s[i]) THEN <<Decimal(s)>>
    ELSE <<>>

---------------------------------------------------------------------------
(* The resolver scan.                                                      *)

\* the condition of the scan: by name and id, or (part_000) by name alone
Matches(v, d, key) ==
    IF v = "part_000" THEN d.name = key
    ELSE (d.name = key) \/ (<<d.id>> = Number(key))

\* a scan that keeps the first match
RECURSIVE ScanFirst(_, _, _, _, _)
ScanFirst(v, ds, key, i, cur) ==
    IF i > Len(ds) THEN cur
    ELSE IF Matches(v, ds[i], key) THEN <<ds[i]>>
    ELSE ScanFirst(v, ds, key, i + 1, cur)

\* droplets.forEach(function (d) { if (...) { droplet = d; } })
RECURSIVE Scan(_, _, _, _, _)
Scan(v, ds, key, i, cur) ==
    IF i > Len(ds) THEN cur
    ELSE Scan(v, ds, key, i + 1, IF Matches(v, ds[i], key) THEN <<ds[i]>> ELSE cur)

\* a resolver whose running match starts at the first droplet
ResolveFromFirst(v, ds, key) ==
    Scan(v, ds, key, 1, IF ds = <<>> THEN <<>> ELSE <<ds[1]>>)

\* let droplet = {}; droplets.forEach(...)
Resolve(v, ds, key) == Scan(v, ds, key, 1, <<>>)

\* droplet.id and droplet.name of the running match
IdOf(dr) == IF dr = <<>> THEN <<>> ELSE <<dr[1].id>>

NameOf(dr) == IF dr = <<>> THEN <<>> ELSE <<dr[1].name>>

---------------------------------------------------------------------------
(* What console.log prints.  One record per call (the count line and the   *)
(* table of list are two calls).                                           *)

\* a message line: "error", "unauthorized", "notfound", "added", "writeError"
Msg(kind) == [kind |-> kind, view |-> "none", rows |-> <<>>, n |-> 0, who |-> <<>>]

\* console.log(droplet)
Detail(dr) == [kind |-> "detail", view |-> "droplet", rows |-> <<>>, n |-> 0, who |-> dr]

\* 'Droplet: ' + dropletName + ', Total results: ' + totalResults
Summary(dr, total) ==
    [kind |-> "summary", view |-> "none", rows |-> <<>>, n |-> total, who |-> dr]

\* 'Droplets: ' + droplets.length
Count(total) == [kind |-> "count", view |-> "none", rows |-> <<>>, n |-> total, who |-> <<>>]

\* table.toString(): the head line and one line per pushed row
Table(view, rows) ==
    [kind |-> "table", view |-> view, rows |-> rows, n |-> Len(rows), who |-> <<>>]

\* console.log(output) of the parsed body as it is
Raw(view) == [kind |-> "raw", view |-> view, rows |-> <<>>, n |-> 0, who |-> <<>>]

---------------------------------------------------------------------------
(* The presenters.  A row keeps the id cell and the status cell with the   *)
(* chalk colour it is wrapped in ("none": the view has no status column).  *)

\* status cell that paints every status that is not red green
DropletColourLoose(status) == IF status = "off" THEN "red" ELSE "green"

\* droplet.status === 'active' ? chalk.green(...) : chalk.red(...)
DropletColour(status) == IF status = "active" THEN "green" ELSE "red"

\* status cell whose default is yellow
ActionColourNeutral(status) ==
    IF status = "errored" THEN "red"
    ELSE IF status = "completed" THEN "green"
    ELSE "yellow"

\* action.status === 'in-progress' ? yellow : === 'errored' ? red : green
ActionColour(status) ==
    IF status = "in-progress" THEN "yellow"
    ELSE IF status = "errored" THEN "red"
    ELSE "green"

DropletRow(d) == [id |-> <<d.id>>, status |-> d.status, colour |-> DropletColour(d.status)]

ActionRow(a) == [id |-> <<a.id>>, status |-> a.status, colour |-> ActionColour(a.status)]

\* kernels and snapshots: the id cell, no status column
PlainRow(x) == [id |-> <<x.id>>, status |-> "", colour |-> "none"]

\* printBackups reads the cells off the response (backups.id), not off the
\* item (backup.id): every cell is undefined
BackupRow(x) == [id |-> <<>>, status |-> "", colour |-> "none"]

\* rows pushed in the opposite order
DropletRowsReversed(ds) == [i \in 1..Len(ds) |-> DropletRow(ds[Len(ds) + 1 - i])]

DropletRows(ds) == [i \in 1..Len(ds) |-> DropletRow(ds[i])]

printKernels(v, items) ==
    IF v = "dod_early" THEN <<Raw("kernels")>>
    ELSE <<Table("kernels", [i \in 1..Len(items) |-> PlainRow(items[i])])>>

printSnapshots(v, items) ==
    IF v = "dod_early" THEN <<Raw("snapshots")>>
    ELSE <<Table("snapshots", [i \in 1..Len(items) |-> PlainRow(items[i])])>>

printBackups(v, items) ==
    IF v = "dod_early" THEN <<Raw("backups")>>
    ELSE <<Table("backups", [i \in 1..Len(items) |-> BackupRow(items[i])])>>

printActions(v, items) ==
    IF v = "dod_early" THEN <<Raw("actions")>>
    ELSE <<Table("actions", [i \in 1..Len(items) |-> ActionRow(items[i])])>>

printNeighbors(v, items) ==
    IF v = "dod_early" THEN <<Raw("neighbors")>>
    ELSE <<Table("neighbors", DropletRows(items))>>

\* switch (option) { case 'kernels': printKernels(output); break; ... }
PrintOption(v, opt, items) ==
    CASE opt = "kernels" -> printKernels(v, items)
      [] opt = "snapshots" -> printSnapshots(v, items)
      [] opt = "backups" -> printBackups(v, items)
      [] opt = "actions" -> printActions(v, items)
      [] opt = "neighbors" -> printNeighbors(v, items)
      [] OTHER -> <<>>

\* what the droplets callback of all / list prints for data.droplets
PrintList(c, ds) ==
    IF c = "list" THEN <<Count(Len(ds)), Table("list", DropletRows(ds))>>
    ELSE <<Table("list", DropletRows(ds))>>

\* printDropletInfo's console.log, and the same line of the older handlers
PrintDropletInfo(dr) == IF IdOf(dr) = <<>> THEN Msg("notfound") ELSE Detail(dr)

---------------------------------------------------------------------------
(* Option selection.                                                       *)

\* an else-if chain that tests the flags in the opposite order
SelectOptionReversed(fs) ==
    IF "neighbors" \in fs THEN "neighbors"
    ELSE IF "actions" \in fs THEN "actions"
    ELSE IF "backups" \in fs THEN "backups"
    ELSE IF "snapshots" \in fs THEN "snapshots"
    ELSE IF "kernels" \in fs THEN "kernels"
    ELSE "undefined"

\* let option; if (cli['kernels']) { option = 'kernels'; } else if ...
SelectOption(fs) ==
    IF "kernels" \in fs THEN "kernels"
    ELSE IF "snapshots" \in fs THEN "snapshots"
    ELSE IF "backups" \in fs THEN "backups"
    ELSE IF "actions" \in fs THEN "actions"
    ELSE IF "neighbors" \in fs THEN "neighbors"
    ELSE "undefined"

---------------------------------------------------------------------------
(* Requests and the responses the API can give.                            *)

\* request.get(baseUrl + '/droplets', auth, callback)
DropletsRequest == [path |-> "droplets", id |-> <<>>, option |-> ""]

\* request.get(baseUrl + '/droplets/' + dropletId + '/' + option, ...):
\* an undefined dropletId or option is the path segment "undefined"
SubRequest(id, opt) == [path |-> "sub", id |-> id, option |-> opt]

\* A response as the callback gets it.  error: callback(error), with no
\* body.  Otherwise the parsed body is an API error { id: ..., message: ... }
\* (id # "") or the collection asked for, { droplets: [...] } and the like.
TransportError == [error |-> TRUE, id |-> "", items |-> <<>>]

ApiError(id) == [error |-> FALSE, id |-> id, items |-> <<>>]

Ok(items) == [error |-> FALSE, id |-> "", items |-> items]

DropletsResponses(c) ==
    {TransportError, ApiError("unauthorized")}
    \cup {Ok(ds) : ds \in SeqsUpTo(IF c = "lookup" THEN LookupDroplet ELSE Droplet,
                                   MaxDroplets)}

Neighbor == [id : {5}, status : DropletStatuses]

\* A sub-resource response: a transport error, the API's not_found body, or
\* (only for a path that names a droplet and a sub-resource) the collection.
SubResponses(req) ==
    {TransportError, ApiError("not_found")}
    \cup IF req.id # <<>> /\ req.option \in Flags
         THEN {Ok(items) :
                 items \in SeqsUpTo(IF req.option = "neighbors" THEN Neighbor ELSE Item,
                                    MaxItems)}
         ELSE {}

\* output[Object.keys(output)[0]]: the collection, or the id string of an
\* API error body
FirstValue(resp) ==
    IF resp.id = "not_found" THEN <<"n", "o", "t", "_", "f", "o", "u", "n", "d">>
    ELSE IF resp.id = "unauthorized"
    THEN <<"u", "n", "a", "u", "t", "h", "o", "r", "i", "z", "e", "d">>
    ELSE resp.items

---------------------------------------------------------------------------
(* The commands.                                                           *)

CommandsOf(v) ==
    IF v = "dod_latest" THEN {"authorize", "list", "lookup"}
    ELSE {"authorize", "all", "lookup"}

Init ==
    /\ variant \in Variants
    /\ cmd \in CommandsOf(variant)
    /\ arg \in (IF cmd = "lookup" THEN FlowKeys ELSE {<<>>})
    /\ flags \in (IF cmd = "lookup" /\ variant # "part_000" THEN SUBSET Flags ELSE {{}})
    /\ pc = "start"
    /\ spinning = FALSE
    /\ started = FALSE
    /\ pending = <<>>
    /\ sent = <<>>
    /\ out = <<>>
    /\ droplets = <<>>
    /\ droplet = <<>>
    /\ option = "undefined"
    /\ received = <<>>
    /\ fileWrite = "none"

\* authorize <token>: one GET with an 'error' listener, then fs.writeFile
AuthorizeStart ==
    /\ cmd = "authorize" /\ pc = "start"
    /\ sent' = Append(sent, DropletsRequest)
    /\ pending' = Append(pending, DropletsRequest)
    /\ fileWrite' = "pending"
    /\ pc' = "authorizing"
    /\ UNCHANGED <<received, variant, cmd, arg, flags, spinning, started, out, droplets, droplet, option>>

\* the GET of authorize ends: .on('error', ...) prints, a response is dropped
AuthorizeResponse ==
    /\ cmd = "authorize" /\ pc = "authorizing" /\ pending # <<>>
    /\ \E resp \in {TransportError, ApiError("unauthorized"), Ok(<<>>)} :
          /\ received' = Append(received, resp)
          /\ out' = IF resp.error THEN Append(out, Msg("error")) ELSE out
    /\ pending' = Tail(pending)
    /\ pc' = IF fileWrite = "done" THEN "done" ELSE pc
    /\ UNCHANGED <<variant, cmd, arg, flags, spinning, started, sent, droplets, droplet,
                   option, fileWrite>>

\* the callback of fs.writeFile(CONFIG_FILE, token, ...)
WriteFileDone ==
    /\ cmd = "authorize" /\ fileWrite = "pending"
    /\ \E err \in BOOLEAN :
          out' = Append(out, IF err THEN Msg("writeError") ELSE Msg("added"))
    /\ fileWrite' = "done"
    /\ pc' = IF pending = <<>> THEN "done" ELSE pc
    /\ UNCHANGED <<received, variant, cmd, arg, flags, spinning, started, pending, sent, droplets,
                   droplet, option>>

\* all: spinner.start(); request.get(...)
AllStart ==
    /\ cmd = "all" /\ pc = "start"
    /\ spinning' = TRUE /\ started' = TRUE
    /\ sent' = Append(sent, DropletsRequest)
    /\ pending' = Append(pending, DropletsRequest)
    /\ pc' = "waitDroplets"
    /\ UNCHANGED <<received, variant, cmd, arg, flags, out, droplets, droplet, option, fileWrite>>

\* list [tag_name]: spinner.start(); request.get(...)
ListStart ==
    /\ cmd = "list" /\ pc = "start"
    /\ spinning' = TRUE /\ started' = TRUE
    /\ sent' = Append(sent, DropletsRequest)
    /\ pending' = Append(pending, DropletsRequest)
    /\ pc' = "waitDroplets"
    /\ UNCHANGED <<received, variant, cmd, arg, flags, out, droplets, droplet, option, fileWrite>>

\* The callback of all and of list: spinner.stop(); JSON.parse(body) throws
\* on the undefined body of a transport error, before error is looked at.
ListHandler(resp) ==
    /\ received' = Append(received, resp)
    /\ pending' = Tail(pending)
    /\ spinning' = FALSE
    /\ IF resp.error
       THEN /\ pc' = "crashed"
            /\ UNCHANGED <<out, droplets>>
       ELSE IF resp.id = "unauthorized"
       THEN /\ out' = Append(out, Msg("unauthorized"))
            /\ pc' = "done"
            /\ UNCHANGED droplets
       ELSE /\ droplets' = resp.items
            /\ out' = out \o PrintList(cmd, resp.items)
            /\ pc' = "done"
    /\ UNCHANGED <<variant, cmd, arg, flags, started, sent, droplet, option, fileWrite>>

AllResponse ==
    /\ cmd = "all" /\ pc = "waitDroplets"
    /\ \E resp \in DropletsResponses(cmd) : ListHandler(resp)

ListResponse ==
    /\ cmd = "list" /\ pc = "waitDroplets"
    /\ \E resp \in DropletsResponses(cmd) : ListHandler(resp)

\* a command body that sends the sub-resource GET without waiting
LookupStartBoth ==
    /\ cmd = "lookup" /\ pc = "start"
    /\ spinning' = (variant # "part_000")
    /\ started' = (variant # "part_000")
    /\ sent' = sent \o <<DropletsRequest, SubRequest(<<>>, SelectOption(flags))>>
    /\ pending' = pending \o <<DropletsRequest, SubRequest(<<>>, SelectOption(flags))>>
    /\ pc' = "waitDroplets"
    /\ UNCHANGED <<received, variant, cmd, arg, flags, out, droplets, droplet, option, fileWrite>>

\* <droplet_name|droplet_id>: spinner.start() (not in part_000); request.get
LookupStart ==
    /\ cmd = "lookup" /\ pc = "start"
    /\ spinning' = (variant # "part_000")
    /\ started' = (variant # "part_000")
    /\ sent' = Append(sent, DropletsRequest)
    /\ pending' = Append(pending, DropletsRequest)
    /\ pc' = "waitDroplets"
    /\ UNCHANGED <<received, variant, cmd, arg, flags, out, droplets, droplet, option, fileWrite>>

\* part_000's callback: parse, error checks, scan by name, print
NameHandler(resp) ==
    /\ received' = Append(received, resp)
    /\ pending' = Tail(pending)
    /\ IF resp.error
       THEN /\ pc' = "crashed"
            /\ UNCHANGED <<out, droplets, droplet>>
       ELSE IF resp.id = "unauthorized"
       THEN /\ out' = Append(out, Msg("unauthorized"))
            /\ pc' = "done"
            /\ UNCHANGED <<droplets, droplet>>
       ELSE /\ droplets' = resp.items
            /\ droplet' = Resolve(variant, resp.items, arg)
            /\ out' = Append(out, PrintDropletInfo(droplet'))
            /\ pc' = "done"
    /\ UNCHANGED <<variant, cmd, arg, flags, spinning, started, sent, option, fileWrite>>

NameResponse ==
    /\ cmd = "lookup" /\ variant = "part_000" /\ pc = "waitDroplets"
    /\ \E resp \in DropletsResponses(cmd) : NameHandler(resp)

\* dod_early's callback: the spinner is stopped only on the paths past the
\* error checks; with no detail flag it prints and returns
EarlyHandler(resp) ==
    /\ received' = Append(received, resp)
    /\ IF resp.error
       THEN /\ pc' = "crashed"
            /\ pending' = Tail(pending)
            /\ UNCHANGED <<out, droplets, droplet, option, spinning, sent>>
       ELSE IF resp.id = "unauthorized"
       THEN /\ out' = Append(out, Msg("unauthorized"))
            /\ pc' = "done"
            /\ pending' = Tail(pending)
            /\ UNCHANGED <<droplets, droplet, option, spinning, sent>>
       ELSE /\ droplets' = resp.items
            /\ droplet' = Resolve(variant, resp.items, arg)
            /\ option' = SelectOption(flags)
            /\ IF option' = "undefined"
               THEN /\ spinning' = FALSE
                    /\ out' = Append(out, PrintDropletInfo(droplet'))
                    /\ pending' = Tail(pending)
                    /\ pc' = "done"
                    /\ UNCHANGED sent
               ELSE /\ sent' = Append(sent, SubRequest(IdOf(droplet'), option'))
                    /\ pending' = Append(Tail(pending), SubRequest(IdOf(droplet'), option'))
                    /\ pc' = "waitSub"
                    /\ UNCHANGED <<spinning, out>>
    /\ UNCHANGED <<variant, cmd, arg, flags, started, fileWrite>>

EarlyResponse ==
    /\ cmd = "lookup" /\ variant = "dod_early" /\ pc = "waitDroplets"
    /\ \E resp \in DropletsResponses(cmd) : EarlyHandler(resp)

\* dod_early's sub-resource callback: the print functions are console.log
EarlySubHandler(resp) ==
    /\ received' = Append(received, resp)
    /\ pending' = Tail(pending)
    /\ spinning' = FALSE
    /\ IF resp.error
       THEN /\ pc' = "crashed"
            /\ UNCHANGED out
       ELSE /\ out' = out \o PrintOption(variant, option, resp.items)
            /\ pc' = "done"
    /\ UNCHANGED <<variant, cmd, arg, flags, started, sent, droplets, droplet, option,
                   fileWrite>>

EarlySubResponse ==
    /\ cmd = "lookup" /\ variant = "dod_early" /\ pc = "waitSub"
    /\ \E resp \in SubResponses(pending[1]) : EarlySubHandler(resp)

\* dod_latest's callback: with no detail flag printDropletInfo stops the
\* spinner and prints, and control falls through to the second request.get
LatestHandler(resp) ==
    /\ received' = Append(received, resp)
    /\ IF resp.error
       THEN /\ pc' = "crashed"
            /\ pending' = Tail(pending)
            /\ UNCHANGED <<out, droplets, droplet, option, spinning, sent>>
       ELSE IF resp.id = "unauthorized"
       THEN /\ out' = Append(out, Msg("unauthorized"))
            /\ pc' = "done"
            /\ pending' = Tail(pending)
            /\ UNCHANGED <<droplets, droplet, option, spinning, sent>>
       ELSE /\ droplets' = resp.items
            /\ droplet' = Resolve(variant, resp.items, arg)
            /\ option' = SelectOption(flags)
            /\ IF option' = "undefined"
               THEN /\ spinning' = FALSE
                    /\ out' = Append(out, PrintDropletInfo(droplet'))
               ELSE UNCHANGED <<spinning, out>>
            /\ sent' = Append(sent, SubRequest(IdOf(droplet'), option'))
            /\ pending' = Append(Tail(pending), SubRequest(IdOf(droplet'), option'))
            /\ pc' = "waitSub"
    /\ UNCHANGED <<variant, cmd, arg, flags, started, fileWrite>>

LatestResponse ==
    /\ cmd = "lookup" /\ variant = "dod_latest" /\ pc = "waitDroplets"
    /\ \E resp \in DropletsResponses(cmd) : LatestHandler(resp)

\* the same lines without the return on zero results
LatestResultsNoReturn(opt, dr, resp) ==
    <<Summary(dr, Len(FirstValue(resp)))>>
        \o (IF resp.id # "" THEN <<>> ELSE PrintOption("dod_latest", opt, resp.items))

\* What dod_latest's sub-resource callback prints once the body is parsed:
\* the summary line, then nothing when totalResults === 0, else the table
\* of the option.  The print functions read the collection off the body
\* (kernels.kernels.forEach): on an API error body it is undefined, the
\* call throws and no table is printed.
LatestResults(opt, dr, resp) ==
    IF Len(FirstValue(resp)) = 0 THEN <<Summary(dr, 0)>>
    ELSE <<Summary(dr, Len(FirstValue(resp)))>>
            \o (IF resp.id # "" THEN <<>> ELSE PrintOption("dod_latest", opt, resp.items))

\* dod_latest's sub-resource callback
LatestSubHandler(resp) ==
    /\ received' = Append(received, resp)
    /\ pending' = Tail(pending)
    /\ spinning' = FALSE
    /\ IF NameOf(droplet) = <<>>
       THEN /\ out' = Append(out, Msg("notfound"))
            /\ pc' = "done"
       ELSE IF resp.error
       THEN /\ pc' = "crashed"
            /\ UNCHANGED out
       ELSE /\ out' = out \o LatestResults(option, droplet, resp)
            /\ pc' = IF Len(FirstValue(resp)) # 0 /\ option \in Flags /\ resp.id # ""
                     THEN "crashed"
                     ELSE "done"
    /\ UNCHANGED <<variant, cmd, arg, flags, started, sent, droplets, droplet, option,
                   fileWrite>>

LatestSubResponse ==
    /\ cmd = "lookup" /\ variant = "dod_latest" /\ pc = "waitSub"
    /\ \E resp \in SubResponses(pending[1]) : LatestSubHandler(resp)

Next ==
    \/ AuthorizeStart
    \/ AuthorizeResponse
    \/ WriteFileDone
    \/ AllStart
    \/ AllResponse
    \/ ListStart
    \/ ListResponse
    \/ LookupStart
    \/ NameResponse
    \/ EarlyResponse
    \/ EarlySubResponse
    \/ LatestResponse
    \/ LatestSubResponse

Spec == Init /\ [][Next]_vars

---------------------------------------------------------------------------
(* The resolver on its own: every argument up to MaxKeyLen characters      *)
(* against every collection of up to MaxScan droplets.                     *)

ScanDroplet == [id : DropletIds, name : DropletNames \cup {<<"1">>}, status : {"active"}]

ResolveInit ==
    /\ variant \in Variants
    /\ cmd = "lookup"
    /\ arg \in Keys
    /\ flags = {}
    /\ pc = "scan"
    /\ spinning = FALSE
    /\ started = FALSE
    /\ pending = <<>>
    /\ sent = <<>>
    /\ out = <<>>
    /\ droplets \in SeqsUpTo(ScanDroplet, MaxScan)
    /\ droplet = <<>>
    /\ option = "undefined"
    /\ received = <<>>
    /\ fileWrite = "none"

\* const droplets = data.droplets; let droplet = {}; droplets.forEach(...)
ResolveApply ==
    /\ pc = "scan"
    /\ droplet' = Resolve(variant, droplets, arg)
    /\ pc' = "resolved"
    /\ UNCHANGED <<variant, cmd, arg, flags, spinning, started, pending, sent, out,
                   droplets, option, received, fileWrite>>

SpecResolve == ResolveInit /\ [][ResolveApply]_vars

---------------------------------------------------------------------------
(* Claims about the resolver.                                              *)

\* the condition the claims state: name == key OR id == Number(key)
KeyMatch(d) == (d.name = arg) \/ (<<d.id>> = Number(arg))

\* the condition of the variant that ran: part_000 compares the name alone
VariantMatch(d) == IF variant = "part_000" THEN d.name = arg ELSE KeyMatch(d)

KeyMatchIndexes == {i \in 1..Len(droplets) : KeyMatch(droplets[i])}

VariantMatchIndexes == {i \in 1..Len(droplets) : VariantMatch(droplets[i])}

Greatest(S) == CHOOSE i \in S : \A j \in S : j <= i

\* C1 as stated: in every variant, when some droplet has name == key or
\* id == Number(key), the resolved droplet is the one of greatest index
\* among those.
C1_LastKeyMatchWins ==
    (pc = "resolved" /\ KeyMatchIndexes # {})
        => droplet = <<droplets[Greatest(KeyMatchIndexes)]>>

\* C1 as amended: the resolved droplet is the droplet of greatest index that
\* satisfies the condition of the command that ran: name == key or
\* id == Number(key) for <droplet_name|droplet_id>, name == key alone for
\* part_000's <droplet_name>.
C1_LastMatchWins ==
    (pc = "resolved" /\ VariantMatchIndexes # {})
        => droplet = <<droplets[Greatest(VariantMatchIndexes)]>>

\* two different droplets share the name asked for and the later one is
\* the result
C1_Witness ==
    /\ pc = "resolved"
    /\ \E i, j \in 1..Len(droplets) :
          /\ i < j
          /\ droplets[i].name = arg /\ droplets[j].name = arg
          /\ droplets[i] # droplets[j]
          /\ droplet = <<droplets[j]>>
          /\ Greatest(VariantMatchIndexes) = j

\* C2: when no droplet has name == key and none has id == Number(key), the
\* running match stays the empty record (its id is undefined) and is no
\* item of the collection.
C2_NoMatchNotFound ==
    (pc = "resolved" /\ KeyMatchIndexes = {})
        => /\ droplet = <<>>
           /\ IdOf(droplet) = <<>>
           /\ \A i \in 1..Len(droplets) : droplet # <<droplets[i]>>

\* a non-empty collection and a numeric key that matches nothing
C2_Witness ==
    /\ pc = "resolved"
    /\ droplets # <<>>
    /\ Number(arg) # <<>>
    /\ KeyMatchIndexes = {}
    /\ droplet = <<>>

---------------------------------------------------------------------------
(* Claims about the command flow.                                          *)

\* the handlers of the invocation have all run, or one of them threw
Finished == pc \in {"done", "crashed"}

\* the droplets callback of <droplet_name|droplet_id> got a droplet list
Scanned ==
    /\ cmd = "lookup"
    /\ Len(received) >= 1
    /\ ~received[1].error /\ received[1].id = ""

NoTransportError == \A i \in 1..Len(received) : ~received[i].error

\* the outputs that are a view: a droplet record, a table, a printed body
ViewIndexes == {i \in 1..Len(out) : out[i].kind \in {"detail", "table", "raw"}}

\* C3 as stated: at most one view is printed and no output follows it, and
\* a bare <name_or_id> invocation that printed the droplet sends no second
\* request.
C3_OneViewPerInvocation ==
    /\ Cardinality(ViewIndexes) <= 1
    /\ \A i \in ViewIndexes : i = Len(out)
    /\ (cmd = "lookup" /\ flags = {} /\ \E i \in 1..Len(out) : out[i].kind = "detail")
          => Len(sent) = 1

\* C4 as stated: when resolution finds no droplet (and no request fails in
\* transport), the invocation ends having printed the not-found message and
\* nothing else, whatever the flags, and does not abort.
C4_NotFoundMessage ==
    (Scanned /\ droplet = <<>> /\ Finished /\ NoTransportError)
        => /\ out = <<Msg("notfound")>>
           /\ pc = "done"

\* C5 as stated: once the droplets response is a transport error or the
\* unauthorized body, all / list / <name_or_id> have printed the matching
\* message and nothing else, sent no further request, and ended.
C5_ErrorPathTerminal ==
    (cmd \in {"all", "list", "lookup"} /\ Len(received) >= 1
        /\ (received[1].error \/ received[1].id = "unauthorized"))
        => /\ out = <<IF received[1].error THEN Msg("error") ELSE Msg("unauthorized")>>
           /\ Len(sent) = 1
           /\ pending = <<>>
           /\ pc = "done"

\* C6 as stated: when the last callback of an invocation that started the
\* spinner has returned, the spinner is stopped.
C6_SpinnerStopped == (pc = "done" /\ started) => ~spinning

\* C7: at most one request awaits its response; a request is sent only
\* when every earlier one has been answered; the sub-resource GET is the
\* second request and follows a droplets response that carried a list.
C7_OneOutstanding ==
    /\ Len(pending) <= 1
    /\ Len(sent) <= Len(received) + 1
    /\ \A i \in 1..Len(sent) :
          sent[i].path = "sub" => (i = 2 /\ Scanned /\ sent[1] = DropletsRequest)

\* the sub-resource GET is the one request in flight
C7_Witness ==
    /\ Len(sent) = 2 /\ Len(received) = 1
    /\ pending = <<sent[2]>>
    /\ sent[2].path = "sub"
    /\ pc = "waitSub"

Priority == <<"kernels", "snapshots", "backups", "actions", "neighbors">>

\* the flag of fs that comes first in the priority order
Highest(fs) == Priority[CHOOSE i \in 1..5 : Priority[i] \in fs /\ \A j \in 1..(i - 1) : Priority[j] \notin fs]

\* C8: with a non-empty set of detail flags, once the droplets list is
\* scanned the option is the highest-priority flag of the set, the one
\* sub-resource request names it, and every table or body printed is its.
C8_FirstFlagWins ==
    (Scanned /\ flags # {})
        => /\ option = Highest(flags)
           /\ Len(sent) = 2
           /\ sent[2] = SubRequest(IdOf(droplet), Highest(flags))
           /\ \A i \in ViewIndexes : out[i].view = Highest(flags)

\* several flags without --kernels, and the table of the first of them
C8_Witness ==
    /\ Scanned /\ pc = "done"
    /\ Cardinality(flags) >= 2 /\ "kernels" \notin flags
    /\ \E i \in 1..Len(out) :
          out[i].kind = "table" /\ out[i].view = Highest(flags) /\ out[i].n > 0

\* the sub-resource callback of a resolved droplet got an empty collection
EmptySubResource ==
    /\ Scanned /\ droplet # <<>> /\ option \in Flags
    /\ Len(received) = 2 /\ received[2] = Ok(<<>>)

\* all / list got an empty droplet list
EmptyList == cmd \in {"all", "list"} /\ received = <<Ok(<<>>)>>

\* C9 as stated, for the commands whose print functions build tables (all,
\* list, and the detail views of dod_latest): every view of an empty
\* collection prints a table with its header and no rows.
C9_EmptyPrintsHeader ==
    (EmptyList \/ (EmptySubResource /\ variant = "dod_latest"))
        => /\ pc = "done"
           /\ \E i \in 1..Len(out) : out[i].kind = "table" /\ out[i].rows = <<>>

\* C9 as amended: an empty collection is no error; all / list print their
\* table with the header and no rows (list after its count line); for a
\* sub-resource of a resolved droplet dod_latest prints the summary line
\* with total 0 and no table, and dod_early prints the parsed body.
C9_EmptyViews ==
    /\ EmptyList =>
          /\ pc = "done"
          /\ out = (IF cmd = "list" THEN <<Count(0)>> ELSE <<>>) \o <<Table("list", <<>>)>>
    /\ EmptySubResource =>
          /\ pc = "done"
          /\ out = IF variant = "dod_latest" THEN <<Summary(droplet, 0)>> ELSE <<Raw(option)>>

\* dod_latest got an empty sub-resource collection for a resolved droplet
C9_Witness == EmptySubResource /\ variant = "dod_latest" /\ pc = "done"

---------------------------------------------------------------------------
(* The presenters on their own: every table-printing command and option    *)
(* against every collection of up to MaxRows items, with statuses the API  *)
(* documents and one it does not ("new" is no action status, "off" no      *)
(* action status either).                                                  *)

ViewItem == [id : {5, 6}, status : ViewStatuses]

ViewInit ==
    /\ variant \in Variants
    /\ cmd \in CommandsOf(variant) \ {"authorize"}
    /\ ~(variant = "part_000" /\ cmd = "lookup")
    /\ arg = <<>>
    /\ flags = {}
    /\ pc = "render"
    /\ spinning = FALSE
    /\ started = FALSE
    /\ pending = <<>>
    /\ sent = <<>>
    /\ out = <<>>
    /\ droplets \in SeqsUpTo(ViewItem, MaxRows)
    /\ droplet = <<>>
    /\ option \in (IF cmd = "lookup" THEN Flags ELSE {"undefined"})
    /\ received = <<>>
    /\ fileWrite = "none"

\* the table of all / list, or the print function of the option
Render ==
    /\ pc = "render"
    /\ out' = IF cmd = "lookup" THEN PrintOption(variant, option, droplets)
              ELSE PrintList(cmd, droplets)
    /\ pc' = "rendered"
    /\ UNCHANGED <<variant, cmd, arg, flags, spinning, started, pending, sent, droplets,
                   droplet, option, received, fileWrite>>

SpecView == ViewInit /\ [][Render]_vars

\* the tables printed from the collection
TableIndexes == {i \in 1..Len(out) : out[i].kind = "table"}

\* every row of every table with a status column satisfies P(view, row),
\* and shows the status of the item it was built from
StatusRows(P(_, _)) ==
    \A t \in TableIndexes :
        out[t].view \in {"list", "neighbors", "actions"} =>
            /\ Len(out[t].rows) = Len(droplets)
            /\ \A i \in 1..Len(droplets) :
                  /\ out[t].rows[i].status = droplets[i].status
                  /\ P(out[t].view, out[t].rows[i])

\* the two-way split of the droplet views, as C10 states it
DropletSplit(view, row) ==
    view \in {"list", "neighbors"} =>
        row.colour = (IF row.status = "active" THEN "green" ELSE "red")

\* the three-way split of the actions view as C10 states it
ActionSplitStated(view, row) ==
    view = "actions" =>
        row.colour = (IF row.status = "errored" THEN "red"
                      ELSE IF row.status \in {"active", "completed"} THEN "green"
                      ELSE "yellow")

\* the three-way split of the actions view as the code makes it
ActionSplit(view, row) ==
    view = "actions" =>
        row.colour = (IF row.status = "in-progress" THEN "yellow"
                      ELSE IF row.status = "errored" THEN "red"
                      ELSE "green")

C10_StatedRow(view, row) == DropletSplit(view, row) /\ ActionSplitStated(view, row)

C10_Row(view, row) ==
    /\ DropletSplit(view, row)
    /\ ActionSplit(view, row)
    /\ row.colour \in {"green", "red", "yellow"}

\* C10 as stated: droplet views paint exactly "active" green and the rest
\* red; the actions view paints exactly "errored" red, the active or
\* completed value green and every other status yellow.
C10_StatusClassesStated == (pc = "rendered") => StatusRows(C10_StatedRow)

\* C10 as amended: droplet views (all, list, neighbors) paint exactly
\* "active" green and every other status red; the actions view paints
\* exactly "in-progress" yellow, exactly "errored" red, and every other
\* status, recognized or not, green; no fourth class is used.
C10_StatusClasses == (pc = "rendered") => StatusRows(C10_Row)

\* an actions table with a status the API does not document, painted green,
\* beside an in-progress row painted yellow
C10_Witness ==
    /\ pc = "rendered"
    /\ \E t \in TableIndexes :
          /\ out[t].view = "actions"
          /\ \E i, j \in 1..Len(out[t].rows) :
                /\ out[t].rows[i].status = "new" /\ out[t].rows[i].colour = "green"
                /\ out[t].rows[j].status = "in-progress" /\ out[t].rows[j].colour = "yellow"

---------------------------------------------------------------------------
(* Claims about the droplet list and the sub-resource request.             *)

\* all / list got a droplet list from a successful, authorized GET
ListReceived ==
    /\ cmd \in {"all", "list"}
    /\ Len(received) = 1
    /\ ~received[1].error /\ received[1].id = ""

CountIndexes == {i \in 1..Len(out) : out[i].kind = "count"}

\* C11: after a successful, authorized droplets GET, all / list end having
\* printed one table, as the last output, with one row per droplet in the
\* order of the collection, the id and status cells of row i being those of
\* droplet i; list prints the droplet count before it, and every count
\* printed is the number of rows.
C11_ListRowsInOrder ==
    ListReceived =>
        /\ pc = "done"
        /\ TableIndexes = {Len(out)}
        /\ LET rows == out[Len(out)].rows
               ds == received[1].items
           IN  /\ out[Len(out)].view = "list"
               /\ Len(rows) = Len(ds)
               /\ \A i \in 1..Len(ds) :
                     /\ rows[i].id = <<ds[i].id>>
                     /\ rows[i].status = ds[i].status
               /\ \A c \in CountIndexes : out[c].n = Len(rows)
               /\ (cmd = "list") => CountIndexes = {1}

\* list got two droplets, the greater id first and with another status,
\* and printed them in that order under the count 2
C11_Witness ==
    /\ ListReceived /\ cmd = "list" /\ pc = "done"
    /\ Len(received[1].items) = 2
    /\ received[1].items[1].id > received[1].items[2].id
    /\ received[1].items[1].status # received[1].items[2].status
    /\ out[1] = Count(2)
    /\ out[2].rows[1].id = <<received[1].items[1].id>>

\* C12 as stated: every sub-resource request carries the id of the droplet
\* the scan matched and one of the five options; none has the path segment
\* "undefined" for the id or for the option.
C12_SubRequestWellFormed ==
    \A i \in 1..Len(sent) :
        sent[i].path = "sub" =>
            /\ droplet # <<>>
            /\ sent[i].id = IdOf(droplet)
            /\ sent[i].id # <<>>
            /\ sent[i].option \in Flags

=============================================================================
